---- MODULE Spec2Model ----
(***************************************************************************)
(* Bounding-box feature server of gsa_web_app.py (and its copies in        *)
(* explore_gpgk_part_3.py and new_Web_app.py): load_data, the lru_cache    *)
(* around get_features_in_bbox, and the /api/features handler, served by   *)
(* Flask with threaded=True.                                               *)
(*                                                                         *)
(* Coordinates are integers counting units of 1e-5 degree, so that the     *)
(* four decimals of the 'bbox' statistic (Scale units) are coarser than    *)
(* the coordinates a client can send.                                      *)
(*                                                                         *)
(* The other programs of the repository are separate processes with their  *)
(* own variables and specifications: the TIFF overlay of new_Web_app.py,   *)
(* the crop server of debug_server.py, the bounds analyzer of              *)
(* cdse_downloads.py and the credential test of conection_cdse.py.         *)
(***************************************************************************)
EXTENDS Integers, Sequences, FiniteSets, TLC

VARIABLES
    phase,        \* where __main__ is: "init", "loaded" (parcels), "ready" (water
                  \* tried), "serving" or "aborted"
    gdf_global,   \* the module global holding the served frame
    cache,        \* the entries of the lru_cache around get_features_in_bbox
    hits,         \* cache_info().hits
    misses,       \* cache_info().misses
    thr,          \* the request each server thread is handling, and its position
    last,         \* the most recently completed /api/features request
    arrivals,     \* the number of requests accepted since Init
    tick,         \* history: the number of uses of cache entries so far
    usedAt,       \* history: for each cached key, the tick of its last use
    source,       \* history: the file load_data was called with
    top_crops,    \* the module global: the 15 most frequent crops of the dataset
    crop_colors,  \* the module global: the colour of each of these crops
    water_gdf,    \* the module global holding the water polygons
    water_loaded, \* __main__: what load_water_data returned
    reply,        \* the most recent answer of /, /api/water, /api/stats or
                  \* /api/tiff-overlay
    tiff_phase,        \* new_Web_app.py: where its __main__ is, as for phase
    tiff_overlay_data, \* new_Web_app.py: the module global holding the overlay
    tiff_reply,        \* new_Web_app.py: the most recent answer of /api/tiff-overlay
    gpkg_file_path,    \* debug_server.py: CropMapHandler.gpkg_file_path
    path,              \* debug_server.py: the request do_GET is answering
    wfile,             \* debug_server.py: the responses sent to that request
    temp_dirs,         \* debug_server.py: the directories mkdtemp made so far
    argv,              \* cdse_downloads.py: the command line and the files it names
    analyzer,          \* cdse_downloads.py: the AgriculturalDataAnalyzer of main
    analysis_pc,       \* cdse_downloads.py: where main and run_analysis are
    calls,             \* cdse_downloads.py: history, the methods called so far
    config_file,       \* cdse_downloads.py: the file save_config_file wrote
    exit_status,       \* cdse_downloads.py: the argument of sys.exit
    environ,           \* conection_cdse.py: CDSE_USERNAME and CDSE_PASSWORD
    cdse,              \* conection_cdse.py: how the two CDSE services answer
    auth_pc,           \* conection_cdse.py: where test_cdse_authentication is
    requests_sent,     \* conection_cdse.py: history, the requests sent so far
    returned           \* conection_cdse.py: what test_cdse_authentication returned

crop_vars == <<top_crops, crop_colors>>
water_vars == <<water_gdf, water_loaded, reply>>
debug_vars == <<gpkg_file_path, path, wfile, temp_dirs>>
analyzer_vars == <<argv, analyzer, analysis_pc, calls, config_file, exit_status>>
auth_vars == <<environ, cdse, auth_pc, requests_sent, returned>>
tiff_vars == <<tiff_phase, tiff_overlay_data, tiff_reply>>
flask_vars ==
    <<phase, gdf_global, cache, hits, misses, thr, last, arrivals, tick, usedAt, source,
      crop_vars, water_vars>>
\* the state of the programs other than gsa_web_app.py
other_vars == <<tiff_vars, debug_vars, analyzer_vars, auth_vars>>

vars == <<phase, gdf_global, cache, hits, misses, thr, last, arrivals, tick, usedAt, source,
          top_crops, crop_colors, water_gdf, water_loaded, reply,
          tiff_phase, tiff_overlay_data, tiff_reply, gpkg_file_path, path, wfile, temp_dirs,
          argv, analyzer, analysis_pc, calls, config_file, exit_status,
          environ, cdse, auth_pc, requests_sent, returned>>

None == "None"

\* the module global gdf_global: None until load_data assigns the frame
NoFrame == [loaded |-> FALSE, rows |-> <<>>]
Frame(rows) == [loaded |-> TRUE, rows |-> rows]

\* a sequence written as a function, held as a tuple: the same value, indexed
\* in constant time (layers of more than chunk_size rows are loaded below)
AsSeq(f) == SubSeq(f, 1, Len(f))

\* a dataset file: whether gpd.read_file can read it, the EPSG code of its
\* coordinate system and its rows; NoFile before load_data was called
NoFile == [readable |-> FALSE, epsg |-> -1, rows |-> <<>>]
GeoFile(rows) == [readable |-> TRUE, epsg |-> 4326, rows |-> rows]

\* an answer of /, /api/water or /api/stats
Reply(route, status, available, features, count) ==
    [route |-> route, status |-> status, water_available |-> available,
     features |-> features, total_count |-> count]

NoReply == Reply("none", 0, FALSE, <<>>, 0)

\* the module globals of lines 27-30 and an unassigned water_loaded
NoWater ==
    /\ water_gdf = NoFrame
    /\ water_loaded = FALSE
    /\ reply = NoReply

\* new_Web_app.py, line 34: tiff_overlay_data = None
NoOverlay == [loaded |-> FALSE, name |-> None]
Overlay == [loaded |-> TRUE, name |-> "Water Body Data"]

\* an answer of /api/tiff-overlay
NoTiffReply == [status |-> 0, overlay |-> NoOverlay]

NoTiff ==
    /\ tiff_phase = "init"
    /\ tiff_overlay_data = NoOverlay
    /\ tiff_reply = NoTiffReply

\* a downloaded file: whether SQLite can read it, and its tables that are
\* neither gpkg_ nor sqlite_ tables, in the order of sqlite_master
Db(valid, tables) == [valid |-> valid, tables |-> tables]
NoDb == Db(FALSE, <<>>)

\* debug_server.py, line 11: gpkg_file_path = None; a path set by a download
\* names the directory mkdtemp made for it, and is kept here with what the
\* file crops.gpkg in that directory holds (nothing writes to it again)
NoPath == [set |-> FALSE, dir |-> 0, db |-> NoDb]
PathIn(dir, db) == [set |-> TRUE, dir |-> dir, db |-> db]

\* a body of debug_server.py: the keys of the JSON objects the handlers write
\* (kind "html" for the two pages, "none" for headers without a body)
Body(kind) ==
    [kind |-> kind, total_features |-> 0, unique_crops |-> 0, top_crops |-> <<>>,
     crop_column_used |-> None, spatial_filtering |-> FALSE, features |-> <<>>,
     success |-> FALSE, error |-> FALSE]

\* send_response(status) ... end_headers() and what wfile.write added to it
Response(status, body) == [status |-> status, body |-> body]

\* a request: its route and the values of its query string
Request(route, bounds, limit, url) ==
    [route |-> route, bounds |-> bounds, limit |-> limit, url |-> url]

NoParam == [given |-> FALSE, ok |-> TRUE, n |-> 0]
NoBounds == [given |-> FALSE, ok |-> TRUE, north |-> 90, south |-> -90, east |-> 180, west |-> -180]
NoUrl == [given |-> FALSE, reachable |-> FALSE, db |-> NoDb]
NoRequest == Request("none", NoBounds, NoParam, NoUrl)

\* the class attribute of line 11 and a server that answered nothing yet
DebugInit ==
    /\ gpkg_file_path = NoPath
    /\ path = NoRequest
    /\ wfile = <<>>
    /\ temp_dirs = <<>>

\* cdse_downloads.py: the command line (whether it has one argument), the
\* data file it names (whether it exists when main looks, whether it is gone
\* when load_data looks, and what gpd.read_file makes of it) and whether the
\* directory of the data file can be written
Argv(one, exists, gone, file, writable) ==
    [one |-> one, exists |-> exists, gone |-> gone, file |-> file, writable |-> writable]

\* AgriculturalDataAnalyzer.__init__, lines 26-31; 'made' is false before it
NoBox == [minx |-> 0, miny |-> 0, maxx |-> 0, maxy |-> 0]
Analyzer(made) ==
    [made |-> made, gdf |-> NoFrame, crs |-> 0, bounds |-> [set |-> FALSE, box |-> NoBox],
     center |-> [lat2 |-> 0, lon2 |-> 0], zoom |-> 0]

\* the configuration file save_config_file writes
NoConfig == [written |-> FALSE, parcel_count |-> 0, bounds |-> NoBox, zoom |-> 0]

\* cdse_downloads.py with main() not running
AnalyzerOff ==
    /\ analyzer = Analyzer(FALSE)
    /\ calls = <<>>
    /\ config_file = NoConfig
    /\ exit_status = -1

NoAnalyzer ==
    /\ argv = Argv(FALSE, FALSE, FALSE, NoFile, FALSE)
    /\ analysis_pc = "off"
    /\ AnalyzerOff

\* conection_cdse.py: os.getenv of the two credentials (None when unset)
Environ(username, password) == [CDSE_USERNAME |-> username, CDSE_PASSWORD |-> password]

\* how a CDSE service answers: the exception requests raises ("none" when it
\* answers), the status code, and what the body is
Answer(raises, status_code, body) ==
    [raises |-> raises, status_code |-> status_code, body |-> body]

Cdse(token, catalogue) == [token |-> token, catalogue |-> catalogue]

\* conection_cdse.py with test_cdse_authentication() not running
NoAuth ==
    /\ environ = Environ(None, None)
    /\ cdse = Cdse(Answer("none", 0, "none"), Answer("none", 0, "none"))
    /\ auth_pc = "off"
    /\ requests_sent = <<>>
    /\ returned = None

NoOthers == NoTiff /\ DebugInit /\ NoAnalyzer /\ NoAuth

(***************************************************************************)
(* Bounds of the model.                                                    *)
(***************************************************************************)
MaxX == 3
MaxY == 2
MaxCap == 2
MaxFeatures == 3
NThreads == 2
MaxRequests == 3

(***************************************************************************)
(* Program constants.                                                      *)
(***************************************************************************)
maxsize == 100
MinArea == 1000000
CropHead == 15
CategoryHead == 10
Scale == 10
chunk_size == 50000

Threads == 1..NThreads

(***************************************************************************)
(* Geometry: a parcel geometry is a sequence of disjoint axis-aligned      *)
(* boxes (a rectilinear polygon or multipolygon).                          *)
(***************************************************************************)
Box(a, b, c, d) == [minx |-> a, miny |-> b, maxx |-> c, maxy |-> d]

Min(a, b) == IF a <= b THEN a ELSE b
Max(a, b) == IF a >= b THEN a ELSE b

RECURSIVE SumSeq(_)
SumSeq(s) == IF s = <<>> THEN 0 ELSE Head(s) + SumSeq(Tail(s))

BoxArea(b) == (b.maxx - b.minx) * (b.maxy - b.miny)

\* geometry.centroid: the area-weighted mean of the parts' centres, kept as an
\* exact fraction num/den (den > 0).
CentroidX(geom) ==
    [num |-> SumSeq([i \in 1..Len(geom) |-> BoxArea(geom[i]) * (geom[i].minx + geom[i].maxx)]),
     den |-> 2 * SumSeq([i \in 1..Len(geom) |-> BoxArea(geom[i])])]

CentroidY(geom) ==
    [num |-> SumSeq([i \in 1..Len(geom) |-> BoxArea(geom[i]) * (geom[i].miny + geom[i].maxy)]),
     den |-> 2 * SumSeq([i \in 1..Len(geom) |-> BoxArea(geom[i])])]

\* fraction >= integer and fraction <= integer
Geq(r, v) == r.num >= v * r.den
Leq(r, v) == r.num <= v * r.den

\* shapely box(minx, miny, maxx, maxy): the rectangle through the four corners,
\* whatever the order of the arguments.
box(minx, miny, maxx, maxy) ==
    Box(Min(minx, maxx), Min(miny, maxy), Max(minx, maxx), Max(miny, maxy))

\* geometry.intersects(bbox) on closed point sets (touching counts).
intersects(geom, bbox) ==
    \E i \in 1..Len(geom) :
        /\ geom[i].minx <= bbox.maxx
        /\ geom[i].maxx >= bbox.minx
        /\ geom[i].miny <= bbox.maxy
        /\ geom[i].maxy >= bbox.miny

(***************************************************************************)
(* The parcels a dataset file may hold.                                    *)
(***************************************************************************)
Parcel(g, en, hc) == [geometry |-> g, English_Name |-> en, HCAT2_Name |-> hc]

\* a small field, a long strip (centroid outside most viewports that touch it),
\* a holding of two separate lots (centroid between the lots) whose crop was
\* not matched to a class (both names missing), and a grove north of the field
Field == Parcel(<<Box(0, 0, 10, 10)>>, "wheat", "cereals")
Strip == Parcel(<<Box(0, 0, 30, 10)>>, "maize", "cereals")
Lots  == Parcel(<<Box(-10, 0, 0, 10), Box(30, 0, 40, 10)>>, None, None)
Grove == Parcel(<<Box(0, 10, 10, 20)>>, "olives", "orchards")

Parcels == {Field, Strip, Lots, Grove}

RECURSIVE SeqsUpTo(_, _)
SeqsUpTo(S, n) ==
    IF n = 0 THEN {<<>>}
    ELSE LET shorter == SeqsUpTo(S, n - 1)
         IN  shorter \cup {Append(s, x) : s \in {u \in shorter : Len(u) = n - 1}, x \in S}

Datasets == SeqsUpTo(Parcels, MaxFeatures)

(***************************************************************************)
(* load_data, lines 78-88: the centroid columns added to every row.        *)
(***************************************************************************)
WithCentroids(rows) ==
    AsSeq([i \in 1..Len(rows) |->
            [geometry     |-> rows[i].geometry,
             English_Name |-> rows[i].English_Name,
             HCAT2_Name   |-> rows[i].HCAT2_Name,
             centroid_x   |-> CentroidX(rows[i].geometry),
             centroid_y   |-> CentroidY(rows[i].geometry)]])

(***************************************************************************)
(* DataFrame.sample(n, random_state=42): the first n positions of          *)
(* numpy.random.RandomState(42).permutation(len), 1-based.                 *)
(***************************************************************************)
Perm42(len) ==
    CASE len = 1 -> <<1>>
      [] len = 2 -> <<2, 1>>
      [] len = 3 -> <<1, 2, 3>>
      [] len = 4 -> <<2, 4, 1, 3>>
      [] len = 5 -> <<2, 5, 3, 1, 4>>
      [] len = 6 -> <<1, 2, 6, 3, 5, 4>>
      [] len = 7 -> <<1, 2, 6, 3, 5, 4, 7>>

\* sample(n) without random_state: the permutation depends on how far the
\* global generator was advanced by the computations before
sample_unseeded(rows, n) ==
    [i \in 1..n |-> rows[((Perm42(Len(rows))[i] + misses) % Len(rows)) + 1]]

sample(rows, n) == [i \in 1..n |-> rows[Perm42(Len(rows))[i]]]

(***************************************************************************)
(* get_features_in_bbox (the undecorated function).  The result is the     *)
(* sequence of row positions of gdf_global it returns, or a raise.         *)
(***************************************************************************)
Query(n, s, e, w, m) == [north |-> n, south |-> s, east |-> e, west |-> w, max_features |-> m]

\* the members of a set of row positions in increasing order (boolean-mask
\* indexing keeps the order of the rows)
RECURSIVE InOrder(_)
InOrder(S) ==
    IF S = {} THEN <<>>
    ELSE LET lo == CHOOSE x \in S : \A y \in S : x <= y
         IN  <<lo>> \o InOrder(S \ {lo})

Returned(rows) == [ok |-> TRUE, rows |-> rows]
Raised == [ok |-> FALSE, rows |-> <<>>]

\* the mask with the bounds put in order first, as box() does
centroid_mask_ordered(gdf, q, i) ==
    /\ Geq(gdf[i].centroid_x, Min(q.west, q.east))
    /\ Leq(gdf[i].centroid_x, Max(q.west, q.east))
    /\ Geq(gdf[i].centroid_y, Min(q.south, q.north))
    /\ Leq(gdf[i].centroid_y, Max(q.south, q.north))

centroid_mask(gdf, q, i) ==
    /\ Geq(gdf[i].centroid_x, q.west)
    /\ Leq(gdf[i].centroid_x, q.east)
    /\ Geq(gdf[i].centroid_y, q.south)
    /\ Leq(gdf[i].centroid_y, q.north)

\* the centroid pre-filter taken as the result, without geometry.intersects
gdf_filtered_by_centroid(gdf, q) ==
    InOrder({i \in 1..Len(gdf) : centroid_mask(gdf, q, i)})

\* the rows matching the viewport: centroid pre-filter, then geometry
\* intersection, before any sampling
gdf_filtered(gdf, q) ==
    LET bbox == box(q.west, q.south, q.east, q.north)
        gdf_subset == {i \in 1..Len(gdf) : centroid_mask(gdf, q, i)}
    IN  InOrder({i \in gdf_subset : intersects(gdf[i].geometry, bbox)})

\* the early return taken only when the frame itself is empty
gdf_subset_empty_frame(gdf, q) == Len(gdf) = 0

gdf_subset_empty(gdf, q) ==
    \A i \in 1..Len(gdf) : ~centroid_mask(gdf, q, i)

\* the function without its "Limit results" step
get_features_in_bbox_unlimited(frame, q) ==
    IF ~frame.loaded THEN Raised
    ELSE IF gdf_subset_empty(frame.rows, q) THEN Returned(<<>>)
    ELSE Returned(gdf_filtered(frame.rows, q))

get_features_in_bbox(frame, q) ==
    IF ~frame.loaded THEN Raised
    ELSE IF gdf_subset_empty(frame.rows, q) THEN Returned(<<>>)
    ELSE LET filtered == gdf_filtered(frame.rows, q)
         IN  IF Len(filtered) > q.max_features
             THEN IF q.max_features < 0 THEN Raised
                  ELSE Returned(sample(filtered, q.max_features))
             ELSE Returned(filtered)

(***************************************************************************)
(* get_features, lines 710-740: the JSON answer built from the frame that  *)
(* get_features_in_bbox returned.                                          *)
(***************************************************************************)
\* f"{x:.4f}": the nearest multiple of Scale (ties to the even multiple)
Round(x) ==
    LET lo == (x \div Scale) * Scale
        r  == x - lo
    IN  IF 2 * r < Scale THEN lo
        ELSE IF 2 * r > Scale THEN lo + Scale
        ELSE IF (lo \div Scale) % 2 = 0 THEN lo ELSE lo + Scale

\* Series.value_counts(): the count of every name present (missing names are
\* dropped)
value_counts(names) ==
    [v \in {names[i] : i \in 1..Len(names)} \ {None} |->
        Cardinality({i \in 1..Len(names) : names[i] = v})]

\* .head(k).to_dict(): the k most frequent names
head(counts, k) ==
    IF Cardinality(DOMAIN counts) <= k THEN counts
    ELSE LET top == CHOOSE T \in SUBSET (DOMAIN counts) :
                        /\ Cardinality(T) = k
                        /\ \A a \in T, b \in (DOMAIN counts) \ T : counts[a] >= counts[b]
         IN  [v \in top |-> counts[v]]

\* load_data, lines 72-76: the module globals top_crops and crop_colors; the
\* colour of a crop is its position in top_crops (most frequent first, crops
\* of equal count in the order of their first row)
NoTable == [loaded |-> FALSE, table |-> <<>>]

TopCrops(rows) ==
    [loaded |-> TRUE,
     table  |-> head(value_counts(AsSeq([i \in 1..Len(rows) |-> rows[i].English_Name])),
                     CropHead)]

FirstRow(rows, crop) ==
    CHOOSE i \in 1..Len(rows) :
        /\ rows[i].English_Name = crop
        /\ \A j \in 1..(i - 1) : rows[j].English_Name # crop

CropColors(rows) ==
    LET top == TopCrops(rows).table
        before(a, b) == top[a] > top[b] \/ (top[a] = top[b] /\ FirstRow(rows, a) < FirstRow(rows, b))
    IN  [loaded |-> TRUE,
         table  |-> [crop \in DOMAIN top |-> 1 + Cardinality({a \in DOMAIN top : before(a, crop)})]]

features_json(frame, rows) ==
    [i \in 1..Len(rows) |->
        [id           |-> rows[i],
         English_Name |-> frame.rows[rows[i]].English_Name,
         HCAT2_Name   |-> frame.rows[rows[i]].HCAT2_Name]]

stats_json(frame, q, rows) ==
    [total_parcels |-> Len(rows),
     bbox          |-> <<Round(q.north), Round(q.south), Round(q.east), Round(q.west)>>,
     crop_distribution |->
        head(value_counts([i \in 1..Len(rows) |-> frame.rows[rows[i]].English_Name]), CropHead),
     category_distribution |->
        head(value_counts([i \in 1..Len(rows) |-> frame.rows[rows[i]].HCAT2_Name]), CategoryHead)]

EmptyStats == [total_parcels |-> 0, bbox |-> <<0, 0, 0, 0>>,
               crop_distribution |-> <<>>, category_distribution |-> <<>>]

NoQuery == Query(0, 0, 0, 0, 0)

\* the most recently completed /api/features request and its answer
NoCall == [status |-> 0, q |-> NoQuery, hit |-> FALSE, features |-> <<>>, stats |-> EmptyStats]

Answer200(frame, q, rows, hit) ==
    [status |-> 200, q |-> q, hit |-> hit,
     features |-> features_json(frame, rows), stats |-> stats_json(frame, q, rows)]

Answer500(q) ==
    [status |-> 500, q |-> q, hit |-> FALSE, features |-> <<>>, stats |-> EmptyStats]

(***************************************************************************)
(* @lru_cache(maxsize=100): entries in order of use, least recent first.   *)
(***************************************************************************)
\* the key built from the bounds rounded to the four decimals of the bbox
\* statistic
make_key_rounded(q) ==
    Query(Round(q.north), Round(q.south), Round(q.east), Round(q.west), q.max_features)

\* the key lru_cache builds from the positional arguments
make_key(q) == q

Entry(q, rows) == [key |-> make_key(q), result |-> rows]

Keys(c) == {c[i].key : i \in 1..Len(c)}

Cached(c, q) == make_key(q) \in Keys(c)

Position(c, q) == CHOOSE i \in 1..Len(c) : c[i].key = make_key(q)

Remove(c, i) == SubSeq(c, 1, i - 1) \o SubSeq(c, i + 1, Len(c))

\* a hit that leaves the order of the entries alone
Touch_unmoved(c, q) == c

\* a hit moves the entry to the most recently used end
Touch(c, q) == LET i == Position(c, q) IN Append(Remove(c, i), c[i])

\* storing a result: nothing if the key was added meanwhile, else the new entry
\* becomes the most recent one, replacing the least recent one when full
Store_unchecked(c, q, rows) ==
    IF Len(c) >= maxsize THEN Append(Tail(c), Entry(q, rows))
    ELSE Append(c, Entry(q, rows))

\* a decorator that keeps nothing
Store_nothing(c, q, rows) == c

Store(c, q, rows) ==
    IF Cached(c, q) THEN c
    ELSE IF Len(c) >= maxsize THEN Append(Tail(c), Entry(q, rows))
    ELSE Append(c, Entry(q, rows))

Idle == [pc |-> "idle", q |-> NoQuery]

(***************************************************************************)
(* One request thread of the threaded server.                              *)
(***************************************************************************)
\* the history of uses after key k was used, kept for the keys of cache c
Used(c, k) ==
    [x \in Keys(c) |-> IF x = k THEN tick + 1 ELSE usedAt[x]]

\* the lru_cache wrapper looks the key up under its lock
Lookup(t) ==
    /\ thr[t].pc = "lookup"
    /\ LET q == thr[t].q IN
       IF Cached(cache, q)
       THEN /\ cache' = Touch(cache, q)
            /\ hits' = hits + 1
            /\ last' = Answer200(gdf_global, q, cache[Position(cache, q)].result, TRUE)
            /\ thr' = [thr EXCEPT ![t] = Idle]
            /\ tick' = tick + 1
            /\ usedAt' = Used(cache, make_key(q))
            /\ UNCHANGED misses
       ELSE /\ misses' = misses + 1
            /\ thr' = [thr EXCEPT ![t].pc = "compute"]
            /\ UNCHANGED <<cache, hits, last, tick, usedAt>>
    /\ UNCHANGED <<phase, gdf_global, arrivals, source>>
    /\ UNCHANGED <<crop_vars, water_vars>>
    /\ UNCHANGED other_vars

\* the wrapped function runs outside the lock; its result is stored under the
\* lock and the handler builds the answer; a raise is answered with a 500
Compute(t) ==
    /\ thr[t].pc = "compute"
    /\ LET q == thr[t].q
           r == get_features_in_bbox(gdf_global, q)
       IN  IF r.ok
           THEN /\ cache' = Store(cache, q, r.rows)
                /\ last' = Answer200(gdf_global, q, r.rows, FALSE)
                /\ IF Cached(cache, q)
                   THEN UNCHANGED <<tick, usedAt>>
                   ELSE /\ tick' = tick + 1
                        /\ usedAt' = Used(cache', make_key(q))
           ELSE /\ last' = Answer500(q)
                /\ UNCHANGED <<cache, tick, usedAt>>
    /\ thr' = [thr EXCEPT ![t] = Idle]
    /\ UNCHANGED <<phase, gdf_global, hits, misses, arrivals, source>>
    /\ UNCHANGED <<crop_vars, water_vars>>
    /\ UNCHANGED other_vars

\* a request for /api/features is accepted and handed to a free thread
Arrive(t, q) ==
    /\ phase = "serving"
    /\ thr[t].pc = "idle"
    /\ arrivals < MaxRequests
    /\ thr' = [thr EXCEPT ![t] = [pc |-> "lookup", q |-> q]]
    /\ arrivals' = arrivals + 1
    /\ UNCHANGED <<phase, gdf_global, cache, hits, misses, last, tick, usedAt, source>>
    /\ UNCHANGED <<crop_vars, water_vars>>
    /\ UNCHANGED other_vars

(***************************************************************************)
(* One /api/features request on a loaded dataset, for every dataset and    *)
(* every viewport of the grid.                                             *)
(***************************************************************************)
GridX == {k * Scale : k \in 0..MaxX}
GridY == {k * Scale : k \in 0..MaxY}
Caps == -1..MaxCap

GridQueries ==
    {Query(n, s, e, w, m) : n \in GridY, s \in GridY, e \in GridX, w \in GridX, m \in Caps}

InitQuery ==
    /\ phase = "serving"
    /\ \E d \in Datasets :
          /\ source = GeoFile(d)
          /\ gdf_global = Frame(WithCentroids(d))
          /\ top_crops = TopCrops(d)
          /\ crop_colors = CropColors(d)
    /\ NoWater
    /\ NoOthers
    /\ cache = <<>>
    /\ hits = 0
    /\ misses = 0
    /\ \E q \in GridQueries :
          thr = [t \in Threads |-> IF t = 1 THEN [pc |-> "lookup", q |-> q] ELSE Idle]
    /\ last = NoCall
    /\ arrivals = 1
    /\ tick = 0
    /\ usedAt = <<>>

NextQuery == \E t \in Threads : Lookup(t) \/ Compute(t)

SpecQuery == InitQuery /\ [][NextQuery]_vars

(***************************************************************************)
(* load_data and __main__.  A file is unreadable (missing or not a         *)
(* geospatial file) or holds rows in EPSG:4326 or in a projected system;   *)
(* projected coordinates are an affine image of the geographic ones.       *)
(***************************************************************************)
Project(v) == 3 * v + 500
Unproject(v) == (v - 500) \div 3

ProjectBox(b) == Box(Project(b.minx), Project(b.miny), Project(b.maxx), Project(b.maxy))
UnprojectBox(b) == Box(Unproject(b.minx), Unproject(b.miny), Unproject(b.maxx), Unproject(b.maxy))

Projected(rows) ==
    AsSeq([i \in 1..Len(rows) |->
            [rows[i] EXCEPT !.geometry = [j \in 1..Len(rows[i].geometry) |-> ProjectBox(rows[i].geometry[j])]]])

\* GeoDataFrame.to_crs('EPSG:4326') of rows held in the projected system
to_crs(rows) ==
    AsSeq([i \in 1..Len(rows) |->
            [rows[i] EXCEPT !.geometry = [j \in 1..Len(rows[i].geometry) |-> UnprojectBox(rows[i].geometry[j])]]])

\* lines 53-62: conversion chunk by chunk from row i on, then concatenation
RECURSIVE to_crs_chunks(_, _)

\* the loop keeping one chunk only instead of appending every chunk
to_crs_chunks_first(rows, i) ==
    to_crs(SubSeq(rows, i + 1, Min(i + chunk_size, Len(rows))))

to_crs_chunks(rows, i) ==
    IF i >= Len(rows) THEN <<>>
    ELSE to_crs(SubSeq(rows, i + 1, Min(i + chunk_size, Len(rows))))
            \o to_crs_chunks(rows, i + chunk_size)

Unreadable == [readable |-> FALSE, epsg |-> 0, rows |-> <<>>]

\* the dataset files tried at startup: none, an empty layer, and two parcel
\* layers, each stored in either coordinate system
FileDatasets == {<<>>, <<Field, Strip, Grove>>, <<Strip, Lots>>}

Files ==
    {Unreadable}
        \cup {GeoFile(d) : d \in FileDatasets}
        \cup {[readable |-> TRUE, epsg |-> 32632, rows |-> Projected(d)] : d \in FileDatasets}

\* load_data converting every readable file, whatever its coordinate system
load_data_any_crs(file) ==
    IF ~file.readable THEN [ok |-> FALSE, frame |-> NoFrame]
    ELSE [ok |-> TRUE, frame |-> Frame(WithCentroids(to_crs(file.rows)))]

\* load_data: the frame it assigns to gdf_global, or a raise
load_data(file) ==
    IF ~file.readable THEN [ok |-> FALSE, frame |-> NoFrame]
    ELSE LET gdf == IF file.epsg # 4326
                    THEN IF Len(file.rows) > chunk_size
                         THEN to_crs_chunks(file.rows, 0)
                         ELSE to_crs(file.rows)
                    ELSE file.rows
         IN  [ok |-> TRUE, frame |-> Frame(WithCentroids(gdf))]

\* load_data reachable again while the server runs
LoadData_reload(file) ==
    /\ phase \in {"init", "serving"}
    /\ LET r == load_data(file) IN
       IF r.ok
       THEN /\ gdf_global' = r.frame
            /\ top_crops' = TopCrops(r.frame.rows)
            /\ crop_colors' = CropColors(r.frame.rows)
            /\ phase' = IF phase = "init" THEN "loaded" ELSE phase
       ELSE phase' = "aborted" /\ UNCHANGED <<gdf_global, crop_vars>>
    /\ source' = file
    /\ UNCHANGED <<cache, hits, misses, thr, last, arrivals, tick, usedAt, water_vars>>
    /\ UNCHANGED other_vars

\* __main__ calls load_data once; a raise is printed and the process ends
LoadData(file) ==
    /\ phase = "init"
    /\ LET r == load_data(file) IN
       IF r.ok
       THEN /\ gdf_global' = r.frame
            /\ top_crops' = TopCrops(r.frame.rows)
            /\ crop_colors' = CropColors(r.frame.rows)
            /\ phase' = "loaded"
       ELSE phase' = "aborted" /\ UNCHANGED <<gdf_global, crop_vars>>
    /\ source' = file
    /\ UNCHANGED <<cache, hits, misses, thr, last, arrivals, tick, usedAt, water_vars>>
    /\ UNCHANGED other_vars

(***************************************************************************)
(* load_water_data.  A water file exists or not; its raster holds regions  *)
(* of value 70 (given here as the polygons rasterio.features.shapes makes  *)
(* of them after the reprojection); a step of the function may raise.      *)
(***************************************************************************)
WaterFile(exists, raises, regions) ==
    [exists |-> exists, raises |-> raises, regions |-> regions]

\* a lake, and a speck below the area threshold of line 197
Lake == Box(0, 0, 2000, 1000)
Speck == Box(3000, 0, 3010, 10)

WaterRow(b) == [geometry |-> <<b>>, water_type |-> "persistent_water", value |-> 70]

\* the steps of load_water_data that can raise: rasterio.open/read,
\* reproject, and after the assignment of water_gdf: sindex, simplify
WaterSteps == {"none", "open", "reproject", "sindex", "simplify"}

WaterFiles ==
    {WaterFile(FALSE, "none", <<>>)}
        \cup {WaterFile(TRUE, st, rg) :
                st \in WaterSteps, rg \in {<<>>, <<Speck>>, <<Lake>>, <<Lake, Speck>>}}

MissingWater == WaterFile(FALSE, "none", <<>>)

\* geometry.simplify(0.0001, preserve_topology=True): a rectangle has no
\* vertex to drop
simplify(rows) == rows

\* what load_water_data returns, and the frame it assigned to water_gdf if it
\* got that far (line 208)
load_water_data(file) ==
    LET geometries == SelectSeq(file.regions, LAMBDA b : BoxArea(b) > MinArea)
        made == Frame([i \in 1..Len(geometries) |-> WaterRow(geometries[i])])
    IN  IF ~file.exists THEN [ret |-> FALSE, assigned |-> FALSE, frame |-> NoFrame]
        ELSE IF file.raises = "open" THEN [ret |-> FALSE, assigned |-> FALSE, frame |-> NoFrame]
        ELSE IF file.regions = <<>> THEN [ret |-> FALSE, assigned |-> FALSE, frame |-> NoFrame]
        ELSE IF file.raises = "reproject" THEN [ret |-> FALSE, assigned |-> FALSE, frame |-> NoFrame]
        ELSE IF geometries = <<>> THEN [ret |-> FALSE, assigned |-> FALSE, frame |-> NoFrame]
        ELSE IF file.raises = "sindex" THEN [ret |-> FALSE, assigned |-> TRUE, frame |-> made]
        ELSE IF file.raises = "simplify" THEN [ret |-> FALSE, assigned |-> TRUE, frame |-> made]
        ELSE [ret |-> TRUE, assigned |-> TRUE, frame |-> Frame(simplify(made.rows))]

\* __main__, line 809: water_loaded = load_water_data(WATER_FILE)
LoadWater(file) ==
    /\ phase = "loaded"
    /\ LET r == load_water_data(file) IN
       /\ water_loaded' = r.ret
       /\ water_gdf' = IF r.assigned THEN r.frame ELSE water_gdf
    /\ phase' = "ready"
    /\ UNCHANGED <<gdf_global, cache, hits, misses, thr, last, arrivals, tick, usedAt, source>>
    /\ UNCHANGED <<crop_vars, reply>>
    /\ UNCHANGED other_vars

(***************************************************************************)
(* The handlers of /, /api/water and /api/stats: they only read the        *)
(* module globals, so each is one step.                                    *)
(***************************************************************************)
View(n, s, e, w) == [north |-> n, south |-> s, east |-> e, west |-> w]

\* the viewports asked of /api/water: on the lake, beside it, and the default
\* arguments (the whole globe)
WaterViews ==
    { View(500, 0, 1000, 0),
      View(500, 0, 2900, 2500),
      View(9000000, -9000000, 18000000, -18000000) }

\* get_water_in_bbox: the positions of the rows of water_gdf it returns
get_water_in_bbox(frame, v) ==
    IF ~frame.loaded THEN <<>>
    ELSE InOrder({i \in 1..Len(frame.rows) :
                    intersects(frame.rows[i].geometry, box(v.west, v.south, v.east, v.north))})

\* index(): water_available and water_count of the page; len(gdf_global)
\* raises on None and Flask answers 500
Index ==
    /\ phase = "serving"
    /\ reply' = IF gdf_global.loaded
                THEN Reply("/", 200, water_gdf.loaded, <<>>,
                           IF water_gdf.loaded THEN Len(water_gdf.rows) ELSE 0)
                ELSE Reply("/", 500, FALSE, <<>>, 0)
    /\ UNCHANGED <<phase, gdf_global, cache, hits, misses, thr, last, arrivals, tick, usedAt, source>>
    /\ UNCHANGED <<crop_vars, water_gdf, water_loaded>>
    /\ UNCHANGED other_vars

\* get_water_features() keeping the filtered frame in the global water_gdf
GetWater_narrowing(v) ==
    /\ phase = "serving"
    /\ reply' = IF ~water_gdf.loaded
                THEN Reply("/api/water", 200, FALSE, <<>>, 0)
                ELSE LET water_filtered == get_water_in_bbox(water_gdf, v)
                     IN  Reply("/api/water", 200, TRUE, water_filtered, Len(water_filtered))
    /\ water_gdf' = IF ~water_gdf.loaded THEN water_gdf
                    ELSE Frame([i \in 1..Len(get_water_in_bbox(water_gdf, v)) |->
                                  water_gdf.rows[get_water_in_bbox(water_gdf, v)[i]]])
    /\ UNCHANGED <<phase, gdf_global, cache, hits, misses, thr, last, arrivals, tick, usedAt, source>>
    /\ UNCHANGED <<crop_vars, water_loaded>>
    /\ UNCHANGED other_vars

\* get_water_features()
GetWater(v) ==
    /\ phase = "serving"
    /\ reply' = IF ~water_gdf.loaded
                THEN Reply("/api/water", 200, FALSE, <<>>, 0)
                ELSE LET water_filtered == get_water_in_bbox(water_gdf, v)
                     IN  Reply("/api/water", 200, TRUE, water_filtered, Len(water_filtered))
    /\ UNCHANGED <<phase, gdf_global, cache, hits, misses, thr, last, arrivals, tick, usedAt, source>>
    /\ UNCHANGED <<crop_vars, water_gdf, water_loaded>>
    /\ UNCHANGED other_vars

\* get_global_stats(): water_available and total_water_bodies; the raise on
\* gdf_global = None is answered with a 500
GetStats ==
    /\ phase = "serving"
    /\ reply' = IF gdf_global.loaded
                THEN Reply("/api/stats", 200, water_gdf.loaded, <<>>,
                           IF water_gdf.loaded THEN Len(water_gdf.rows) ELSE 0)
                ELSE Reply("/api/stats", 500, FALSE, <<>>, 0)
    /\ UNCHANGED <<phase, gdf_global, cache, hits, misses, thr, last, arrivals, tick, usedAt, source>>
    /\ UNCHANGED <<crop_vars, water_gdf, water_loaded>>
    /\ UNCHANGED other_vars

\* app.run placed after the try/except of __main__, reached after a raise too
StartServer_after_except ==
    /\ phase \in {"ready", "aborted"}
    /\ phase' = "serving"
    /\ UNCHANGED <<gdf_global, cache, hits, misses, thr, last, arrivals, tick, usedAt, source>>
    /\ UNCHANGED <<crop_vars, water_vars>>
    /\ UNCHANGED other_vars

\* app.run(..., threaded=True)
StartServer ==
    /\ phase = "ready"
    /\ phase' = "serving"
    /\ UNCHANGED <<gdf_global, cache, hits, misses, thr, last, arrivals, tick, usedAt, source>>
    /\ UNCHANGED <<crop_vars, water_vars>>
    /\ UNCHANGED other_vars

\* the requests of a client panning around one viewport: the viewport, the
\* same viewport moved by less than the fourth decimal, and other caps
Workload ==
    { Query(10, 0, 30, 0, 2),
      Query(11, 0, 30, 0, 2),
      Query(10, 0, 30, 0, 1),
      Query(10, 0, 30, 0, -1) }

\* gsa_web_app.py before its __main__ runs
FlaskInit ==
    /\ phase = "init"
    /\ gdf_global = NoFrame
    /\ source = NoFile
    /\ top_crops = NoTable
    /\ crop_colors = NoTable
    /\ NoWater
    /\ cache = <<>>
    /\ hits = 0
    /\ misses = 0
    /\ thr = [t \in Threads |-> Idle]
    /\ last = NoCall
    /\ arrivals = 0
    /\ tick = 0
    /\ usedAt = <<>>

Init == FlaskInit /\ NoOthers

Next ==
    \/ \E file \in Files : LoadData(file)
    \/ LoadWater(MissingWater)
    \/ StartServer
    \/ \E t \in Threads, q \in Workload : Arrive(t, q)
    \/ \E t \in Threads : Lookup(t)
    \/ \E t \in Threads : Compute(t)

Spec == Init /\ [][Next]_vars

(***************************************************************************)
(* The server after maxsize different viewports were queried one after the *)
(* other (a client moving south step by step): the cache is full, and its  *)
(* oldest entries hold sampled subsets.                                    *)
(***************************************************************************)
FillQuery(i) == Query(maxsize + 1 - i, 0, 30, 0, 2)

WarmDatasets == {<<Field, Strip, Grove>>}

WarmWorkload ==
    { FillQuery(1), FillQuery(2),
      FillQuery(maxsize + 1), Query(10, 0, 30, 0, 1), Query(10, 0, 30, 0, -1) }

InitWarm ==
    /\ phase = "serving"
    /\ \E d \in WarmDatasets :
          /\ source = GeoFile(d)
          /\ gdf_global = Frame(WithCentroids(d))
          /\ top_crops = TopCrops(d)
          /\ crop_colors = CropColors(d)
    /\ NoWater
    /\ NoOthers
    /\ hits = 0
    /\ misses = maxsize
    /\ cache = [i \in 1..maxsize |->
                    Entry(FillQuery(i), get_features_in_bbox(gdf_global, FillQuery(i)).rows)]
    /\ thr = [t \in Threads |-> Idle]
    /\ last = Answer200(gdf_global, FillQuery(maxsize),
                        get_features_in_bbox(gdf_global, FillQuery(maxsize)).rows, FALSE)
    /\ arrivals = 0
    /\ tick = maxsize
    /\ usedAt = [k \in {make_key(FillQuery(i)) : i \in 1..maxsize} |->
                    CHOOSE i \in 1..maxsize : make_key(FillQuery(i)) = k]

NextWarm ==
    \/ \E t \in Threads, q \in WarmWorkload : Arrive(t, q)
    \/ \E t \in Threads : Lookup(t)
    \/ \E t \in Threads : Compute(t)

SpecWarm == InitWarm /\ [][NextWarm]_vars

(***************************************************************************)
(* The module imported instead of run: __main__ is skipped, so load_data   *)
(* was never called and gdf_global still holds the None of line 27, while  *)
(* the routes of the module-level app answer requests.                     *)
(***************************************************************************)
InitImported ==
    /\ phase = "serving"
    /\ gdf_global = NoFrame
    /\ source = NoFile
    /\ top_crops = NoTable
    /\ crop_colors = NoTable
    /\ NoWater
    /\ NoOthers
    /\ cache = <<>>
    /\ hits = 0
    /\ misses = 0
    /\ thr = [t \in Threads |-> Idle]
    /\ last = NoCall
    /\ arrivals = 0
    /\ tick = 0
    /\ usedAt = <<>>

NextImported ==
    \/ \E t \in Threads, q \in Workload : Arrive(t, q)
    \/ \E t \in Threads : Lookup(t)
    \/ \E t \in Threads : Compute(t)

SpecImported == InitImported /\ [][NextImported]_vars

(***************************************************************************)
(* The startup with every kind of water file, and all the routes of the    *)
(* server on one parcel layer.                                             *)
(***************************************************************************)
(***************************************************************************)
(* new_Web_app.py: the same server with a TIFF overlay in place of the     *)
(* water layer.  Its load_data is the one above without the chunks; here   *)
(* only whether it raised matters.                                         *)
(***************************************************************************)
\* a TIFF file: the step of load_tiff_overlay that raises on it, if any
\* (rasterio.open on a missing or unreadable file, the reprojection, the
\* rendering of the image)
TiffSteps == {"none", "open", "reproject", "render"}

\* load_tiff_overlay: what it returns and the overlay it assigned, if it got
\* to line 137
load_tiff_overlay(raises) ==
    IF raises # "none" THEN [ret |-> FALSE, assigned |-> FALSE]
    ELSE [ret |-> TRUE, assigned |-> TRUE]

\* __main__, line 709: load_data(GPKG_FILE); a raise leaves the try block
TiffLoadData(ok) ==
    /\ tiff_phase = "init"
    /\ tiff_phase' = IF ok THEN "loaded" ELSE "aborted"
    /\ UNCHANGED <<tiff_overlay_data, tiff_reply>>
    /\ UNCHANGED <<flask_vars, debug_vars, analyzer_vars, auth_vars>>

\* __main__, lines 712-718: tiff_loaded = load_tiff_overlay(TIFF_FILE)
LoadTiff(raises) ==
    /\ tiff_phase = "loaded"
    /\ tiff_phase' = "ready"
    /\ tiff_overlay_data' = IF load_tiff_overlay(raises).assigned THEN Overlay
                            ELSE tiff_overlay_data
    /\ UNCHANGED tiff_reply
    /\ UNCHANGED <<flask_vars, debug_vars, analyzer_vars, auth_vars>>

\* __main__, line 740: app.run(...)
TiffStartServer ==
    /\ tiff_phase = "ready"
    /\ tiff_phase' = "serving"
    /\ UNCHANGED <<tiff_overlay_data, tiff_reply>>
    /\ UNCHANGED <<flask_vars, debug_vars, analyzer_vars, auth_vars>>

\* get_tiff_overlay()
GetTiffOverlay ==
    /\ tiff_phase = "serving"
    /\ tiff_reply' = IF ~tiff_overlay_data.loaded
                     THEN [status |-> 404, overlay |-> NoOverlay]
                     ELSE [status |-> 200, overlay |-> tiff_overlay_data]
    /\ UNCHANGED <<tiff_phase, tiff_overlay_data>>
    /\ UNCHANGED <<flask_vars, debug_vars, analyzer_vars, auth_vars>>

WaterSideFiles == {Unreadable, GeoFile(<<Field, Strip, Grove>>)}

WaterSideWorkload == {Query(10, 0, 30, 0, 2), Query(20, 0, 30, 0, 2)}

NextWater ==
    \/ \E file \in WaterSideFiles : LoadData(file)
    \/ \E file \in WaterFiles : LoadWater(file)
    \/ StartServer
    \/ \E t \in Threads, q \in WaterSideWorkload : Arrive(t, q)
    \/ \E t \in Threads : Lookup(t)
    \/ \E t \in Threads : Compute(t)
    \/ Index
    \/ \E v \in WaterViews : GetWater(v)
    \/ GetStats
    \/ \E ok \in BOOLEAN : TiffLoadData(ok)
    \/ \E raises \in TiffSteps : LoadTiff(raises)
    \/ TiffStartServer
    \/ GetTiffOverlay

SpecWater == Init /\ [][NextWater]_vars

(***************************************************************************)
(* The startup alone, on every small dataset and on layers around the      *)
(* chunk size of the reprojection: one chunk_size rows long (converted in  *)
(* one piece), one row longer, and two full chunks.                        *)
(***************************************************************************)
LargeParcel(i) == Parcel(<<Box(i, 0, i + 10, 10)>>, "wheat", "cereals")

LargeLayer(n) == AsSeq([i \in 1..n |-> LargeParcel(i)])

LargeSizes == {chunk_size, chunk_size + 1, 2 * chunk_size}

LargeFile(n) == [readable |-> TRUE, epsg |-> 32632, rows |-> Projected(LargeLayer(n))]

LoadFiles ==
    {Unreadable}
        \cup {GeoFile(d) : d \in Datasets}
        \cup {[readable |-> TRUE, epsg |-> 32632, rows |-> Projected(d)] : d \in Datasets}

NextLoad ==
    \/ \E file \in LoadFiles : LoadData(file)
    \/ \E n \in LargeSizes : LoadData(LargeFile(n))
    \/ LoadWater(MissingWater)
    \/ StartServer

SpecLoad == Init /\ [][NextLoad]_vars

(***************************************************************************)
(* debug_server.py: CropMapHandler.  Column names and crop names are       *)
(* strings; a cell of a table is a value with its SQLite type.             *)
(***************************************************************************)
MaxDownloads == 2
MaxLimit == 2

CropLimit == 10
DefaultLimit == 20
NameWidth == 20

Lowercase ==
    [A |-> "a", B |-> "b", C |-> "c", D |-> "d", E |-> "e", F |-> "f", G |-> "g",
     H |-> "h", I |-> "i", J |-> "j", K |-> "k", L |-> "l", M |-> "m", N |-> "n",
     O |-> "o", P |-> "p", Q |-> "q", R |-> "r", S |-> "s", T |-> "t", U |-> "u",
     V |-> "v", W |-> "w", X |-> "x", Y |-> "y", Z |-> "z"]

\* str.lower()
RECURSIVE lower(_)
lower(str) ==
    IF str = "" THEN ""
    ELSE LET ch == SubSeq(str, 1, 1)
         IN  (IF ch \in DOMAIN Lowercase THEN Lowercase[ch] ELSE ch)
                \o lower(SubSeq(str, 2, Len(str)))

\* sub in str
Contains(sub, str) ==
    \E i \in 0..(Len(str) - Len(sub)) : SubSeq(str, i + 1, i + Len(sub)) = sub

Integer(text) == [type |-> "integer", text |-> text, x |-> 0, y |-> 0]
Text(text) == [type |-> "text", text |-> text, x |-> 0, y |-> 0]
Blob(text) == [type |-> "blob", text |-> text, x |-> 0, y |-> 0]
Null == [type |-> "null", text |-> "None", x |-> 0, y |-> 0]
\* a geometry, given by the centroid ST_Centroid finds, in degrees
Geom(x, y) == [type |-> "geometry", text |-> "", x |-> x, y |-> y]

\* a table; 'broken' when reading its rows raises (a virtual table whose
\* module the sqlite3 build lacks, or damaged pages of the file)
Table(name, columns, rows, broken) ==
    [name |-> name, columns |-> columns, rows |-> rows, broken |-> broken]

parcels ==
    Table("parcels", <<"fid", "geom", "crop_type", "area_ha">>,
          << <<Integer("1"), Geom(10, 45), Text("wheat"), Integer("3")>>,
             <<Integer("2"), Geom(12, 44), Text("wheat"), Integer("5")>>,
             <<Integer("3"), Geom(-98, 39), Text("maize"), Integer("2")>>,
             <<Integer("4"), Geom(11, 45), Null, Integer("1")>>,
             <<Integer("5"), Geom(11, 46), Text(""), Integer("1")>>,
             <<Integer("6"), Geom(13, 42), Text("permanent grassland and meadows"), Integer("9")>> >>,
          FALSE)

land ==
    Table("land", <<"FID", "land_use", "type">>,
          << <<Integer("1"), Text("arable"), Text("A")>>,
             <<Integer("2"), Text("forest"), Text("B")>>,
             <<Integer("3"), Text("arable"), Text("B")>> >>,
          FALSE)

\* more crops than CropLimit and more rows than DefaultLimit
CropNames ==
    <<"c01", "c02", "c03", "c04", "c05", "c06", "c07", "c08", "c09", "c10", "c11">>

many ==
    Table("many", <<"fid", "crop">>,
          AsSeq([i \in 1..(2 * Len(CropNames) + 1) |->
                   <<Integer("0"), Text(CropNames[IF i > 2 * Len(CropNames) THEN 2
                                                  ELSE ((i - 1) % Len(CropNames)) + 1])>>]),
          FALSE)

\* a table without a primary key, its fid cells holding BLOBs
blobs ==
    Table("blobs", <<"fid", "crop">>, << <<Blob("x"), Text("wheat")>> >>, FALSE)

damaged == Table("damaged", <<"fid", "crop">>, <<>>, TRUE)

Dbs ==
    { Db(FALSE, <<>>), Db(TRUE, <<>>), Db(TRUE, <<parcels>>), Db(TRUE, <<land>>),
      Db(TRUE, <<many>>), Db(TRUE, <<blobs>>), Db(TRUE, <<parcels, damaged>>) }

Url(reachable, db) == [given |-> TRUE, reachable |-> reachable, db |-> db]

Urls == {NoUrl, Url(FALSE, NoDb)} \cup {Url(TRUE, db) : db \in Dbs}

Bounds(n, s, e, w) ==
    [given |-> TRUE, ok |-> TRUE, north |-> n, south |-> s, east |-> e, west |-> w]

\* the default bounds, Italy, and a value float() rejects
BoundsAsked ==
    {NoBounds, Bounds(47, 36, 19, 6), [Bounds(47, 36, 19, 6) EXCEPT !.ok = FALSE]}

Limit(n) == [given |-> TRUE, ok |-> TRUE, n |-> n]

\* the default limit, small limits, and a value int() rejects
LimitsAsked ==
    {NoParam, [Limit(0) EXCEPT !.ok = FALSE]} \cup {Limit(n) : n \in -1..MaxLimit}

\* a directory made by mkdtemp: whether crops.gpkg was written in it, and
\* (history) what the download answered
TempDir(written, success) == [written |-> written, success |-> success]

\* the first element of 'patterns' that is part of a column name selects the
\* first such column
first_matching(patterns, column_names) ==
    LET lowered == AsSeq([i \in 1..Len(column_names) |-> lower(column_names[i])])
        matching(p) == LET low == lower(p)
                       IN  {i \in 1..Len(column_names) : Contains(low, lowered[i])}
        found == {i \in 1..Len(patterns) : matching(patterns[i]) # {}}
    IN  IF found = {} THEN None
        ELSE LET cols == matching(patterns[CHOOSE i \in found : \A j \in found : i <= j])
             IN  column_names[CHOOSE i \in cols : \A j \in cols : i <= j]

possible_crop_columns ==
    <<"crop", "crop_type", "crop_name", "landuse", "land_use", "type", "class", "category",
      "cover", "land_cover", "use", "vegetation", "agriculture", "farming", "plant",
      "code", "description", "label", "name">>

\* serve_crop_data: the crop column
crop_column_of(column_names) ==
    LET found == first_matching(possible_crop_columns, column_names)
        non_geom_columns ==
            SelectSeq(column_names,
                      LAMBDA col : /\ ~Contains("geom", lower(col))
                                   /\ lower(col) \notin {"fid", "id", "objectid", "gid"})
    IN  IF found # None THEN found
        ELSE IF non_geom_columns # <<>> THEN Head(non_geom_columns) ELSE None

\* serve_geojson_working: the crop column
geojson_crop_column_of(column_names) ==
    LET found == first_matching(<<"crop", "crop_type", "landuse", "type", "class">>, column_names)
        non_geom ==
            SelectSeq(column_names,
                      LAMBDA col : /\ ~Contains("geom", lower(col))
                                   /\ lower(col) \notin {"fid", "id"})
    IN  IF found # None THEN found
        ELSE IF non_geom # <<>> THEN Head(non_geom) ELSE None

\* serve_crop_data: the geometry column
geom_column_of(column_names) ==
    LET geoms == SelectSeq(column_names, LAMBDA col : Contains("geom", lower(col)))
    IN  IF geoms = <<>> THEN None ELSE Head(geoms)

\* the position of a column (SQLite compares column names without case)
ColumnAt(column_names, col) ==
    CHOOSE i \in 1..Len(column_names) : lower(column_names[i]) = lower(col)

HasColumn(column_names, col) ==
    \E i \in 1..Len(column_names) : lower(column_names[i]) = lower(col)

\* str(value)
str(v) == IF v.type = "blob" THEN "b'" \o v.text \o "'" ELSE v.text

\* if row[0]
truthy(v) ==
    /\ v.type # "null"
    /\ ~(v.type \in {"text", "blob"} /\ v.text = "")
    /\ ~(v.type = "integer" /\ v.text = "0")

\* GROUP BY the values ... ORDER BY count DESC LIMIT CropLimit; among equal
\* counts the value met first comes first
top_counts(values) ==
    LET firsts == {i \in 1..Len(values) : \A j \in 1..(i - 1) : values[j] # values[i]}
        count == [i \in firsts |-> Cardinality({j \in 1..Len(values) : values[j] = values[i]})]
        rank == [i \in firsts |-> Cardinality({j \in firsts : \/ count[j] > count[i]
                                                              \/ count[j] = count[i] /\ j < i})]
    IN  AsSeq([r \in 1..Min(Cardinality(firsts), CropLimit) |->
                  LET i == CHOOSE i \in firsts : rank[i] = r - 1
                  IN  [value |-> values[i], count |-> count[i]]])

\* X BETWEEN west AND east AND Y BETWEEN south AND north, of the centroid
InBounds(g, b) ==
    /\ g.type = "geometry"
    /\ b.west <= g.x /\ g.x <= b.east
    /\ b.south <= g.y /\ g.y <= b.north

\* the body written after an exception
Failed(kind) == [Body(kind) EXCEPT !.error = TRUE]

\* serve_crop_data: the body it writes.  'st' tells whether the connection
\* knows ST_X, ST_Y and ST_Centroid (sqlite3 itself does not)
serve_crop_data(file_path, req, st) ==
    IF ~file_path.set THEN Body("crops")
    ELSE LET db == file_path.db
             table == db.tables[1]
             column_names == table.columns
             crop_column == crop_column_of(column_names)
             geom_column == geom_column_of(column_names)
             geom_at == ColumnAt(column_names, geom_column)
             crop_at == ColumnAt(column_names, crop_column)
             spatial == /\ geom_column # None
                        /\ st
                        /\ table.rows # <<>>
                        /\ Head(table.rows)[geom_at].type = "geometry"
             counted == SelectSeq(table.rows,
                                  LAMBDA row : spatial => InBounds(row[geom_at], req.bounds))
             grouped == SelectSeq(counted, LAMBDA row : row[crop_at].type # "null")
             results == top_counts(AsSeq([i \in 1..Len(grouped) |-> grouped[i][crop_at]]))
             kept == SelectSeq(results, LAMBDA row : truthy(row.value))
             top_crops_ == [i \in 1..Len(kept) |->
                              [crop |-> IF Len(str(kept[i].value)) > NameWidth
                                        THEN SubSeq(str(kept[i].value), 1, NameWidth - 3) \o "..."
                                        ELSE str(kept[i].value),
                               count |-> kept[i].count]]
         IN  IF \/ ~req.bounds.ok
                \/ ~db.valid
                \/ db.tables = <<>>
                \/ table.broken
                \/ crop_column = None
             THEN Failed("crops")
             ELSE [Body("crops") EXCEPT !.total_features = Len(counted),
                                        !.unique_crops = Len(top_crops_),
                                        !.top_crops = top_crops_,
                                        !.crop_column_used = crop_column,
                                        !.spatial_filtering = geom_column # None]

\* int(limit ** 0.5) for a limit that is not negative
isqrt(n) == CHOOSE k \in 0..n : k * k <= n /\ (k + 1) * (k + 1) > n

\* serve_geojson_working: the rows of its SELECT ... LIMIT
geojson_results(table, limit) ==
    LET column_names == table.columns
        crop_at == ColumnAt(column_names, geojson_crop_column_of(column_names))
        filled == SelectSeq(table.rows, LAMBDA row : row[crop_at].type # "null")
    IN  IF limit < 0 THEN filled ELSE SubSeq(filled, 1, Min(limit, Len(filled)))

\* serve_geojson_working: what it sends.  The coordinates of the sample
\* points count twentieths of a degree.  json.dumps raises on a BLOB after the
\* headers have been sent, and the handler of the exception sends again
serve_geojson_working(file_path, req) ==
    IF ~file_path.set THEN <<Response(200, Body("geojson"))>>
    ELSE LET db == file_path.db
             limit == IF req.limit.given THEN req.limit.n ELSE DefaultLimit
             table == db.tables[1]
             column_names == table.columns
             crop_column == geojson_crop_column_of(column_names)
             results == geojson_results(table, limit)
             grid_size == isqrt(limit) + 1
             fid_at == ColumnAt(column_names, "fid")
             crop_at == ColumnAt(column_names, crop_column)
             features ==
                 AsSeq([i \in 1..Len(results) |->
                          [fid |-> results[i][fid_at],
                           crop |-> str(results[i][crop_at]),
                           lon |-> -1960 + (2 * ((i - 1) % grid_size) - grid_size) * 5,
                           lat |-> 790 + (2 * ((i - 1) \div grid_size) - grid_size) * 3]])
         IN  IF \/ ~req.limit.ok
                \/ ~db.valid
                \/ db.tables = <<>>
                \/ table.broken
                \/ crop_column = None
                \/ ~HasColumn(column_names, "fid")
                \/ limit < 0 /\ results # <<>>
             THEN <<Response(200, Failed("geojson"))>>
             ELSE IF \E i \in 1..Len(features) : features[i].fid.type = "blob"
             THEN <<Response(200, Body("none")), Response(200, Failed("geojson"))>>
             ELSE <<Response(200, [Body("geojson") EXCEPT !.features = features])>>

\* download_gpkg_from_github: whether mkdtemp was reached, the file written
\* and gpkg_file_path assigned (line 466), and the body
download_gpkg_from_github(url) ==
    LET counted == url.db.valid /\ \A i \in 1..Len(url.db.tables) : ~url.db.tables[i].broken
        total_count == SumSeq([i \in 1..Len(url.db.tables) |-> Len(url.db.tables[i].rows)])
    IN  IF ~url.given THEN [made |-> FALSE, written |-> FALSE, assigned |-> FALSE,
                            body |-> Failed("download")]
        ELSE IF ~url.reachable THEN [made |-> TRUE, written |-> FALSE, assigned |-> FALSE,
                                     body |-> Failed("download")]
        ELSE IF ~counted THEN [made |-> TRUE, written |-> TRUE, assigned |-> TRUE,
                               body |-> Failed("download")]
        ELSE [made |-> TRUE, written |-> TRUE, assigned |-> TRUE,
              body |-> [Body("download") EXCEPT !.success = TRUE,
                                                !.total_features = total_count]]

\* do_GET, path '/'
ServeMainPage ==
    /\ path' = Request("/", NoBounds, NoParam, NoUrl)
    /\ wfile' = <<Response(200, Body("html"))>>
    /\ UNCHANGED <<gpkg_file_path, temp_dirs>>
    /\ UNCHANGED <<flask_vars, tiff_vars, analyzer_vars, auth_vars>>

\* do_GET, path '/api/crops...'
ServeCropData(bounds, st) ==
    /\ path' = Request("/api/crops", bounds, NoParam, NoUrl)
    /\ wfile' = <<Response(200, serve_crop_data(gpkg_file_path, path', st))>>
    /\ UNCHANGED <<gpkg_file_path, temp_dirs>>
    /\ UNCHANGED <<flask_vars, tiff_vars, analyzer_vars, auth_vars>>

\* do_GET, path '/api/geojson...'
ServeGeojsonWorking(limit) ==
    /\ path' = Request("/api/geojson", NoBounds, limit, NoUrl)
    /\ wfile' = serve_geojson_working(gpkg_file_path, path')
    /\ UNCHANGED <<gpkg_file_path, temp_dirs>>
    /\ UNCHANGED <<flask_vars, tiff_vars, analyzer_vars, auth_vars>>

\* do_GET, path '/download-gpkg...'
DownloadGpkgFromGithub(url) ==
    /\ Len(temp_dirs) < MaxDownloads
    /\ path' = Request("/download-gpkg", NoBounds, NoParam, url)
    /\ LET r == download_gpkg_from_github(url) IN
       /\ temp_dirs' = IF r.made
                       THEN Append(temp_dirs, TempDir(r.written, r.body.success))
                       ELSE temp_dirs
       /\ gpkg_file_path' = IF r.assigned THEN PathIn(Len(temp_dirs) + 1, url.db)
                            ELSE gpkg_file_path
       /\ wfile' = <<Response(200, r.body)>>
    /\ UNCHANGED <<flask_vars, tiff_vars, analyzer_vars, auth_vars>>

\* do_GET, any other path
Send404 ==
    /\ path' = Request("/favicon.ico", NoBounds, NoParam, NoUrl)
    /\ wfile' = <<Response(404, Body("html"))>>
    /\ UNCHANGED <<gpkg_file_path, temp_dirs>>
    /\ UNCHANGED <<flask_vars, tiff_vars, analyzer_vars, auth_vars>>

\* the dispatch of do_GET, one request after the other (HTTPServer is not
\* threaded)
do_GET ==
    \/ ServeMainPage
    \/ \E bounds \in BoundsAsked, st \in BOOLEAN : ServeCropData(bounds, st)
    \/ \E limit \in LimitsAsked : ServeGeojsonWorking(limit)
    \/ \E url \in Urls : DownloadGpkgFromGithub(url)
    \/ Send404

SpecDebug == Init /\ [][do_GET]_vars

(***************************************************************************)
(* Properties of a single query.                                           *)
(***************************************************************************)
Answered == last.status # 0

\* GeoDataFrame.total_bounds of a non-empty frame
total_bounds(rows) ==
    LET parts == {<<i, j>> \in (1..Len(rows)) \X (1..2) : j <= Len(rows[i].geometry)}
        part(p) == rows[p[1]].geometry[p[2]]
    IN  Box(CHOOSE v \in {part(p).minx : p \in parts} : \A p \in parts : v <= part(p).minx,
            CHOOSE v \in {part(p).miny : p \in parts} : \A p \in parts : v <= part(p).miny,
            CHOOSE v \in {part(p).maxx : p \in parts} : \A p \in parts : v >= part(p).maxx,
            CHOOSE v \in {part(p).maxy : p \in parts} : \A p \in parts : v >= part(p).maxy)

ValidRect(q) == q.north >= q.south /\ q.east >= q.west

Covers(q, b) ==
    q.west <= b.minx /\ q.east >= b.maxx /\ q.south <= b.miny /\ q.north >= b.maxy

Outside(q, b) ==
    /\ ValidRect(q)
    /\ q.east < b.minx \/ q.west > b.maxx \/ q.north < b.miny \/ q.south > b.maxy

EmptyDist == <<>>

Matched(q) == gdf_filtered(gdf_global.rows, q)

\* C1 as stated: every answered query returns at most max_features features.
C1_AtMostCap ==
    last.status = 200 => Len(last.features) <= last.q.max_features

\* C1 amended: every answered query whose max_features is not negative returns
\* at most max_features features.
C1_AtMostCapNonNegative ==
    (last.status = 200 /\ last.q.max_features >= 0)
        => Len(last.features) <= last.q.max_features

\* a query matching more parcels than its cap was answered with cap features
C1_Witness ==
    /\ last.status = 200
    /\ last.q.max_features >= 1
    /\ Len(Matched(last.q)) > last.q.max_features
    /\ Len(last.features) = last.q.max_features

\* C2: the statistics of the answer (total_parcels and the crop and category
\* counts) are those of the full matched set, also when it was sampled.
C2_StatsOfMatchedSet ==
    last.status = 200 => last.stats = stats_json(gdf_global, last.q, Matched(last.q))

\* C3: a viewport covering the total bounds of the dataset is answered with a
\* total count equal to the size of the dataset, whatever max_features is.
C3_CoverCountsAll ==
    (last.status = 200 /\ Len(gdf_global.rows) > 0
        /\ Covers(last.q, total_bounds(gdf_global.rows)))
        => last.stats.total_parcels = Len(gdf_global.rows)

\* C4: a viewport strictly outside the total bounds of the dataset is answered
\* with no features, count 0 and empty crop and category distributions.
C4_OutsideIsEmpty ==
    (Answered /\ Len(gdf_global.rows) > 0
        /\ Outside(last.q, total_bounds(gdf_global.rows)))
        => /\ last.status = 200
           /\ last.features = <<>>
           /\ last.stats.total_parcels = 0
           /\ last.stats.crop_distribution = EmptyDist
           /\ last.stats.category_distribution = EmptyDist

\* a viewport outside the bounds of a non-empty dataset was answered, with a
\* cap that is negative (the case in which an empty filtered set would raise)
C4_Witness ==
    /\ last.status = 200
    /\ Len(gdf_global.rows) > 0
    /\ Outside(last.q, total_bounds(gdf_global.rows))
    /\ last.q.max_features < 0
    /\ last.features = <<>>

\* C5: a query whose rectangle has north < south or east < west is answered
\* with an empty result, never with an error.
C5_InvalidIsEmpty ==
    (Answered /\ (last.q.north < last.q.south \/ last.q.east < last.q.west))
        => /\ last.status = 200
           /\ last.features = <<>>
           /\ last.stats.total_parcels = 0

\* an inverted rectangle whose box() does intersect a parcel was answered empty
C5_Witness ==
    /\ last.status = 200
    /\ last.q.east < last.q.west
    /\ \E i \in 1..Len(gdf_global.rows) :
          intersects(gdf_global.rows[i].geometry,
                     box(last.q.west, last.q.south, last.q.east, last.q.north))
    /\ last.features = <<>>

(***************************************************************************)
(* Properties of the cache.                                                *)
(***************************************************************************)
LookupStep(t) == thr[t].pc = "lookup" /\ thr'[t].pc # "lookup"
ComputeStep(t) == thr[t].pc = "compute" /\ thr'[t].pc = "idle"

EvictsLeastRecentlyUsed ==
    \A t \in Threads :
        (ComputeStep(t) /\ Len(cache) = maxsize /\ thr[t].q \notin Keys(cache)
            /\ get_features_in_bbox(gdf_global, thr[t].q).ok)
            => \E victim \in Keys(cache) :
                  /\ \A k \in Keys(cache) : usedAt[victim] <= usedAt[k]
                  /\ Keys(cache') = (Keys(cache) \ {victim}) \cup {thr[t].q}

\* C8: the cache never holds more than maxsize (100) entries, and a new key
\* stored in a full cache evicts exactly the entry whose last use (hit or
\* insertion) is the oldest; nothing else removes an entry.
C8_BoundedLRU ==
    /\ [](Len(cache) <= maxsize /\ Cardinality(Keys(cache)) = Len(cache))
    /\ [][EvictsLeastRecentlyUsed]_vars
    /\ [][Cardinality(Keys(cache) \ Keys(cache')) <= 1
            /\ (Len(cache) < maxsize => Keys(cache) \subseteq Keys(cache'))]_vars

\* the oldest entry was used again, and the next new key evicted the second
\* oldest instead
C8_Witness ==
    /\ Len(cache) = maxsize
    /\ hits >= 1
    /\ FillQuery(1) \in Keys(cache)
    /\ FillQuery(2) \notin Keys(cache)

CacheFresh ==
    \A i \in 1..Len(cache) :
        get_features_in_bbox(gdf_global, cache[i].key) = Returned(cache[i].result)

\* C9: every cached result equals the result of recomputing its query on the
\* current gdf_global, which is assigned by the one load at startup and never
\* afterwards; below maxsize no entry is removed.
C9_NeverStale ==
    /\ [](CacheFresh)
    /\ [][phase # "init" => gdf_global' = gdf_global]_vars
    /\ [][Len(cache) < maxsize => Keys(cache) \subseteq Keys(cache')]_vars

\* the cache holds several entries, one of them a sampled subset
C9_Witness ==
    /\ phase = "serving"
    /\ Len(cache) >= 2
    /\ \E i \in 1..Len(cache) : Len(cache[i].result) < Len(Matched(cache[i].key))

\* C10: in every interleaving of the request threads the cache stays within
\* maxsize, holds every key once, and maps every key to the result of its own
\* query.
C10_CacheNotCorrupted ==
    /\ Len(cache) <= maxsize
    /\ \A i, j \in 1..Len(cache) : cache[i].key = cache[j].key => i = j
    /\ CacheFresh
    /\ DOMAIN usedAt = Keys(cache)

\* two threads compute the same new query at the same time on a full cache
C10_Witness ==
    /\ Len(cache) = maxsize
    /\ \E t, u \in Threads :
          /\ t # u
          /\ thr[t].pc = "compute"
          /\ thr[u].pc = "compute"
          /\ thr[t].q = thr[u].q
          /\ thr[t].q \notin Keys(cache)

(***************************************************************************)
(* Failure modes of a query.                                               *)
(***************************************************************************)
\* C11: a query on an empty gdf_global, or on a gdf_global that is still None,
\* is answered with an empty result (no features, count 0), not with an error.
C11_EmptyOrNoneIsEmpty ==
    (Answered /\ (~gdf_global.loaded \/ Len(gdf_global.rows) = 0))
        => /\ last.status = 200
           /\ last.features = <<>>
           /\ last.stats.total_parcels = 0

\* C12: no bounding-box query ends in an exception or an error answer, for any
\* bounds and any integer max_features (0 and negative included): a failure
\* inside the query is answered as an empty result.
C12_NoErrorOutcome ==
    Answered
        => /\ last.status = 200
           /\ ~get_features_in_bbox(gdf_global, last.q).ok => last.features = <<>>

(***************************************************************************)
(* The two filters of a query.                                             *)
(***************************************************************************)
Viewport(q) == box(q.west, q.south, q.east, q.north)

Intersecting(q) ==
    {i \in 1..Len(gdf_global.rows) : intersects(gdf_global.rows[i].geometry, Viewport(q))}

CentroidInside(q) ==
    {i \in 1..Len(gdf_global.rows) : centroid_mask(gdf_global.rows, q, i)}

ReturnedIds == {last.features[k].id : k \in 1..Len(last.features)}

\* C13: a parcel whose geometry intersects the viewport while its centroid
\* lies outside of it is in the matched set, and in the answer when the cap is
\* not exceeded.
C13_IntersectingIsMatched ==
    (last.status = 200 /\ ValidRect(last.q)
        /\ Cardinality(Intersecting(last.q)) <= last.q.max_features)
        => \A i \in Intersecting(last.q) \ CentroidInside(last.q) : i \in ReturnedIds

RECURSIVE SumOver(_, _)
SumOver(counts, S) ==
    IF S = {} THEN 0
    ELSE LET v == CHOOSE v \in S : TRUE
         IN  counts[v] + SumOver(counts, S \ {v})

SumCounts(counts) == SumOver(counts, DOMAIN counts)

\* C14: when the m parcels matching the viewport are at most max_features, the
\* answer holds exactly those m parcels (nothing is sampled) and the crop and
\* category counts reported with it each sum to m, whatever the names of the
\* matched parcels are (missing names included).
C14_AllMatchedAndCounted ==
    (last.status = 200 /\ Len(Matched(last.q)) <= last.q.max_features)
        => /\ last.features = features_json(gdf_global, Matched(last.q))
           /\ SumCounts(last.stats.crop_distribution) = Len(Matched(last.q))
           /\ SumCounts(last.stats.category_distribution) = Len(Matched(last.q))

(***************************************************************************)
(* Properties of load_data and of the startup in __main__.                 *)
(***************************************************************************)
LoadTried == source # NoFile

\* C15: load_data raises when the file is missing or unparseable or holds no
\* feature; a dataset without features is never assigned to gdf_global.
C15_LoadRejectsEmpty ==
    /\ (LoadTried /\ (~source.readable \/ Len(source.rows) = 0)) => phase = "aborted"
    /\ gdf_global.loaded => Len(gdf_global.rows) > 0

\* C16: a raise of load_data ends the startup: the server accepts requests
\* only after load_data returned, nothing runs after the raise, and load_data
\* is not called a second time.
C16_FailedLoadAbortsStartup ==
    /\ []((phase = "serving" \/ arrivals > 0)
            => (LoadTried /\ load_data(source).ok /\ gdf_global.loaded))
    /\ []((LoadTried /\ ~load_data(source).ok)
            => (phase = "aborted" /\ ~gdf_global.loaded /\ arrivals = 0))
    /\ [][phase # "aborted"]_vars
    /\ [][LoadTried => source' = source]_vars

\* load_data raised on a missing file and the process ended without serving
C16_Witness ==
    /\ LoadTried
    /\ ~source.readable
    /\ phase = "aborted"
    /\ arrivals = 0

\* the geometry of a served row is the EPSG:4326 geometry of the row read
InWGS84(row, read) ==
    IF source.epsg = 4326
    THEN row.geometry = read.geometry
    ELSE [j \in 1..Len(row.geometry) |-> ProjectBox(row.geometry[j])] = read.geometry

\* C17: after load_data returned, gdf_global holds as many rows as the file,
\* row by row the feature that was read, in EPSG:4326; also when the rows were
\* converted in chunks (more than chunk_size rows, a multiple of it or not).
C17_LoadKeepsEveryFeature ==
    gdf_global.loaded
        => /\ Len(gdf_global.rows) = Len(source.rows)
           /\ \A i \in 1..Len(gdf_global.rows) :
                 /\ i <= Len(source.rows)
                 /\ InWGS84(gdf_global.rows[i], source.rows[i])
                 /\ gdf_global.rows[i].English_Name = source.rows[i].English_Name

\* a projected layer one row longer than a chunk was loaded
C17_Witness ==
    /\ gdf_global.loaded
    /\ source.epsg # 4326
    /\ Len(source.rows) > chunk_size
    /\ Len(source.rows) % chunk_size # 0
    /\ Len(gdf_global.rows) = Len(source.rows)

\* the served frame written back to a file: its rows, in EPSG:4326
Saved(frame) == GeoFile(frame.rows)

\* C18: load_data leaves the geometries of a file that is already in
\* EPSG:4326 as they are and does not raise on it; loading is idempotent: the
\* load of what a load produced gives the same geometries and centroids.
C18_LoadIdempotent ==
    /\ (LoadTried /\ source.readable /\ source.epsg = 4326)
          => /\ gdf_global.loaded
             /\ Len(gdf_global.rows) = Len(source.rows)
             /\ \A i \in 1..Len(source.rows) :
                   gdf_global.rows[i].geometry = source.rows[i].geometry
    /\ gdf_global.loaded
          => /\ load_data(Saved(gdf_global)).ok
             /\ load_data(Saved(gdf_global)).frame = gdf_global

\* a projected layer was converted by the load, and loading the converted
\* layer again changes nothing
C18_Witness ==
    /\ gdf_global.loaded
    /\ source.epsg # 4326
    /\ Len(gdf_global.rows) > 0
    /\ gdf_global.rows[1].geometry # source.rows[1].geometry
    /\ load_data(Saved(gdf_global)).frame = gdf_global

(***************************************************************************)
(* The subset a query returns.                                             *)
(***************************************************************************)
\* C19: the geometry of every returned parcel intersects the viewport; a
\* parcel whose centroid is inside the viewport while its geometry does not
\* intersect it is never returned.
C19_ReturnedIntersect ==
    last.status = 200
        => /\ ReturnedIds \subseteq Intersecting(last.q)
           /\ \A i \in CentroidInside(last.q) \ Intersecting(last.q) : i \notin ReturnedIds

\* a viewport between the two lots of a holding: the centroid of the holding
\* is inside, its geometry is not, and only another parcel was returned
C19_Witness ==
    /\ last.status = 200
    /\ CentroidInside(last.q) \ Intersecting(last.q) # {}
    /\ ReturnedIds # {}
    /\ ReturnedIds = CentroidInside(last.q) \cap Intersecting(last.q)

\* C20: the subset a query is answered with is the one get_features_in_bbox
\* computes from gdf_global, the bounds and the cap alone, whether the answer
\* came from the cache or was computed, and whatever was queried before: a
\* query computed again after its entry was evicted gets the subset it got
\* before.
C20_SubsetOfQueryOnly ==
    last.status = 200
        => last.features =
              features_json(gdf_global, get_features_in_bbox(gdf_global, last.q).rows)

\* the oldest entry, a sampled subset, was evicted by a new viewport, and its
\* query was then computed again and stored again
C20_Witness ==
    /\ last.status = 200
    /\ ~last.hit
    /\ last.q = FillQuery(1)
    /\ misses > maxsize + 1
    /\ FillQuery(2) \notin Keys(cache)
    /\ Len(last.features) < Len(Matched(last.q))
    /\ Len(last.features) = last.q.max_features

(***************************************************************************)
(* The water layer and the other routes.                                   *)
(***************************************************************************)
\* C21: no query operation (get_features_in_bbox, get_water_in_bbox, the
\* handlers of /api/features, /api/water, /api/stats and /) changes
\* gdf_global, water_gdf, top_crops or crop_colors.
C21_QueriesOnlyRead ==
    [][phase = "serving" => UNCHANGED <<gdf_global, water_gdf, top_crops, crop_colors>>]_vars

\* parcels and water polygons were both served from loaded data
C21_Witness ==
    /\ last.status = 200
    /\ last.features # <<>>
    /\ reply.route = "/api/water"
    /\ reply.features # <<>>
    /\ top_crops.loaded
    /\ crop_colors.loaded

(***************************************************************************)
(* cdse_downloads.py: main() and AgriculturalDataAnalyzer.run_analysis,    *)
(* one step for each method called.                                        *)
(***************************************************************************)
\* the methods run_analysis calls, lines 267-280
Steps ==
    <<"load_data", "calculate_bounds", "display_summary", "generate_cdse_urls",
      "generate_leaflet_config", "generate_flask_api", "save_config_file">>

\* a layer without a coordinate system: gdf.crs is None
NoCrs == 0

\* the data files: unreadable, or a layer in WGS84, in the projected system
\* or without a coordinate system
DataFiles ==
    {Unreadable}
        \cup {GeoFile(d) : d \in FileDatasets}
        \cup {[readable |-> TRUE, epsg |-> 32632, rows |-> Projected(d)] : d \in FileDatasets}
        \cup {[readable |-> TRUE, epsg |-> NoCrs, rows |-> d] : d \in FileDatasets}

Argvs ==
    {Argv(one, exists, gone, file, writable) :
        one \in BOOLEAN, exists \in BOOLEAN, gone \in BOOLEAN, file \in DataFiles,
        writable \in BOOLEAN}

\* lines 86-99: the zoom level of a range given in units of 1e-5 degree
zoom_for(max_range) ==
    IF max_range > 1000000 THEN 6
    ELSE IF max_range > 500000 THEN 7
    ELSE IF max_range > 200000 THEN 8
    ELSE IF max_range > 100000 THEN 9
    ELSE IF max_range > 50000 THEN 10
    ELSE IF max_range > 20000 THEN 11
    ELSE 12

\* main(), lines 297-315: the checks of the command line and of the file,
\* then the constructor
Main ==
    /\ analysis_pc = "main"
    /\ IF ~argv.one \/ ~argv.exists
       THEN /\ exit_status' = 1
            /\ analysis_pc' = "exited"
            /\ UNCHANGED analyzer
       ELSE /\ analyzer' = Analyzer(TRUE)
            /\ analysis_pc' = "load_data"
            /\ UNCHANGED exit_status
    /\ UNCHANGED <<argv, calls, config_file>>
    /\ UNCHANGED <<flask_vars, tiff_vars, debug_vars, auth_vars>>

\* load_data accepting a layer without rows
AnalyzerLoadData_accepts_empty ==
    /\ analysis_pc = "load_data"
    /\ calls' = Append(calls, "load_data")
    /\ IF argv.gone \/ ~argv.file.readable
       THEN analysis_pc' = "failed" /\ UNCHANGED analyzer
       ELSE /\ analyzer' = [analyzer EXCEPT !.gdf = Frame(argv.file.rows),
                                            !.crs = argv.file.epsg]
            /\ analysis_pc' = "calculate_bounds"
    /\ UNCHANGED <<argv, config_file, exit_status>>
    /\ UNCHANGED <<flask_vars, tiff_vars, debug_vars, auth_vars>>

\* run_analysis, line 267: load_data().  The FileNotFoundError of line 38
\* reaches the except of run_analysis, the other failures return False; each
\* makes run_analysis return False
AnalyzerLoadData ==
    /\ analysis_pc = "load_data"
    /\ calls' = Append(calls, "load_data")
    /\ IF argv.gone \/ ~argv.file.readable
       THEN analysis_pc' = "failed" /\ UNCHANGED analyzer
       ELSE /\ analyzer' = [analyzer EXCEPT !.gdf = Frame(argv.file.rows),
                                            !.crs = argv.file.epsg]
            /\ analysis_pc' = IF argv.file.rows = <<>> THEN "failed" ELSE "calculate_bounds"
    /\ UNCHANGED <<argv, config_file, exit_status>>
    /\ UNCHANGED <<flask_vars, tiff_vars, debug_vars, auth_vars>>

\* run_analysis, line 270: calculate_bounds(); to_crs raises on a layer
\* without a coordinate system.  (load_data lets no empty layer get here; its
\* total_bounds would be NaN, for which the model has no number.)
CalculateBounds ==
    /\ analysis_pc = "calculate_bounds"
    /\ calls' = Append(calls, "calculate_bounds")
    /\ IF analyzer.crs = NoCrs \/ analyzer.gdf.rows = <<>>
       THEN analysis_pc' = "failed" /\ UNCHANGED analyzer
       ELSE LET gdf_wgs84 == IF analyzer.crs # 4326 THEN to_crs(analyzer.gdf.rows)
                             ELSE analyzer.gdf.rows
                b == total_bounds(gdf_wgs84)
            IN  /\ analyzer' = [analyzer EXCEPT
                                   !.bounds = [set |-> TRUE, box |-> b],
                                   !.center = [lat2 |-> b.maxy + b.miny, lon2 |-> b.maxx + b.minx],
                                   !.zoom = zoom_for(Max(b.maxy - b.miny, b.maxx - b.minx))]
                /\ analysis_pc' = "display_summary"
    /\ UNCHANGED <<argv, config_file, exit_status>>
    /\ UNCHANGED <<flask_vars, tiff_vars, debug_vars, auth_vars>>

\* run_analysis, lines 273-276: the four methods that print
Display(i) ==
    /\ analysis_pc = Steps[i]
    /\ calls' = Append(calls, Steps[i])
    /\ analysis_pc' = Steps[i + 1]
    /\ UNCHANGED <<argv, analyzer, config_file, exit_status>>
    /\ UNCHANGED <<flask_vars, tiff_vars, debug_vars, auth_vars>>

\* run_analysis, line 279: save_config_file(), which catches the failure of
\* its own write; then return True
SaveConfigFile ==
    /\ analysis_pc = "save_config_file"
    /\ calls' = Append(calls, "save_config_file")
    /\ config_file' = IF argv.writable
                      THEN [written |-> TRUE, parcel_count |-> Len(analyzer.gdf.rows),
                            bounds |-> analyzer.bounds.box, zoom |-> analyzer.zoom]
                      ELSE config_file
    /\ analysis_pc' = "succeeded"
    /\ UNCHANGED <<argv, analyzer, exit_status>>
    /\ UNCHANGED <<flask_vars, tiff_vars, debug_vars, auth_vars>>

\* main(), lines 317-325: sys.exit(0) after True, sys.exit(1) after False
Exit ==
    /\ analysis_pc \in {"succeeded", "failed"}
    /\ exit_status' = IF analysis_pc = "succeeded" THEN 0 ELSE 1
    /\ analysis_pc' = "exited"
    /\ UNCHANGED <<argv, analyzer, calls, config_file>>
    /\ UNCHANGED <<flask_vars, tiff_vars, debug_vars, auth_vars>>

InitAnalyzer ==
    /\ FlaskInit
    /\ NoTiff
    /\ DebugInit
    /\ NoAuth
    /\ argv \in Argvs
    /\ analysis_pc = "main"
    /\ AnalyzerOff

NextAnalyzer ==
    \/ Main
    \/ AnalyzerLoadData
    \/ CalculateBounds
    \/ \E i \in 3..6 : Display(i)
    \/ SaveConfigFile
    \/ Exit

SpecAnalyzer == InitAnalyzer /\ [][NextAnalyzer]_vars

(***************************************************************************)
(* conection_cdse.py: test_cdse_authentication and test_api_access.        *)
(***************************************************************************)
Credentials == {None, "", "user@example.com"}

Environs == {Environ(u, p) : u \in Credentials, p \in Credentials}

\* the answers of the token endpoint: no answer (an exception of requests),
\* a refusal, or 200 with a token, with JSON that has no access_token, or
\* with a body that is not JSON
TokenAnswers ==
    {Answer(e, 0, "none") : e \in {"Timeout", "ConnectionError", "RequestException"}}
        \cup {Answer("none", st, "text") : st \in {400, 401, 500}}
        \cup {Answer("none", 200, b) : b \in {"token", "json", "text"}}

\* the answers of the catalogue
CatalogueAnswers ==
    {Answer("ConnectionError", 0, "none"), Answer("none", 403, "text"),
     Answer("none", 200, "json"), Answer("none", 200, "text")}

\* lines 16-27: the credentials are read and checked
CheckCredentials ==
    /\ auth_pc = "start"
    /\ IF environ.CDSE_USERNAME \in {None, ""} \/ environ.CDSE_PASSWORD \in {None, ""}
       THEN returned' = "False" /\ auth_pc' = "done"
       ELSE auth_pc' = "token" /\ UNCHANGED returned
    /\ UNCHANGED <<environ, cdse, requests_sent>>
    /\ UNCHANGED <<flask_vars, tiff_vars, debug_vars, analyzer_vars>>

\* lines 33-96: requests.post(token_url), the branches on the status code and
\* the three except clauses.  On 200, response.json() and
\* token_data['access_token'] are evaluated before test_api_access is called
RequestToken ==
    /\ auth_pc = "token"
    /\ requests_sent' = Append(requests_sent, "token")
    /\ IF cdse.token.raises = "none" /\ cdse.token.status_code = 200 /\ cdse.token.body = "token"
       THEN auth_pc' = "api" /\ UNCHANGED returned
       ELSE returned' = "False" /\ auth_pc' = "done"
    /\ UNCHANGED <<environ, cdse>>
    /\ UNCHANGED <<flask_vars, tiff_vars, debug_vars, analyzer_vars>>

\* lines 60-62: test_api_access(token), which catches its own exceptions, then
\* return True
TestApiAccess ==
    /\ auth_pc = "api"
    /\ requests_sent' = Append(requests_sent, "catalogue")
    /\ returned' = "True"
    /\ auth_pc' = "done"
    /\ UNCHANGED <<environ, cdse>>
    /\ UNCHANGED <<flask_vars, tiff_vars, debug_vars, analyzer_vars>>

InitAuth ==
    /\ FlaskInit
    /\ NoTiff
    /\ DebugInit
    /\ NoAnalyzer
    /\ environ \in Environs
    /\ cdse \in {Cdse(t, c) : t \in TokenAnswers, c \in CatalogueAnswers}
    /\ auth_pc = "start"
    /\ requests_sent = <<>>
    /\ returned = None

NextAuth == CheckCredentials \/ RequestToken \/ TestApiAccess

SpecAuth == InitAuth /\ [][NextAuth]_vars

(***************************************************************************)
(* Properties of the optional layers.                                      *)
(***************************************************************************)
\* C23: load_water_data returns True exactly when water_gdf is set afterwards:
\* after a call that returned False water_gdf is None, and the index page and
\* /api/stats report the water layer as unavailable.
C23_WaterSetIffLoaded ==
    phase \in {"ready", "serving"} =>
        /\ water_loaded <=> water_gdf.loaded
        /\ reply.route \in {"/", "/api/stats"} /\ reply.status = 200
              => (reply.water_available <=> water_loaded)

\* C24: a failure to load the optional layer does not abort startup: after
\* load_water_data (load_tiff_overlay) returned False the server can start,
\* /api/water then answers no features and total_count 0, and
\* /api/tiff-overlay answers 404.
C24_OptionalLayerFailure ==
    /\ phase = "ready" /\ ~water_loaded => ENABLED StartServer
    /\ phase = "serving" /\ ~water_loaded /\ reply.route = "/api/water"
          => reply.features = <<>> /\ reply.total_count = 0
    /\ tiff_phase = "ready" /\ ~tiff_overlay_data.loaded => ENABLED TiffStartServer
    /\ tiff_phase = "serving" /\ ~tiff_overlay_data.loaded /\ tiff_reply.status # 0
          => tiff_reply.status = 404

(***************************************************************************)
(* Properties of debug_server.py.                                          *)
(***************************************************************************)
Answering(route) == path.route = route /\ wfile # <<>>

EmptyResult(body) ==
    /\ body.kind \in {"crops", "geojson"}
    /\ body.total_features = 0
    /\ body.top_crops = <<>>
    /\ body.features = <<>>

\* C22: a failure inside serve_crop_data or serve_geojson_working is answered
\* with status 200 and an empty result (total_features 0 and no crops, or no
\* features), and every GET request is sent exactly one response.
C22_FailureAnsweredOnce ==
    /\ path.route # "none" => Len(wfile) = 1
    /\ \A i \in 1..Len(wfile) :
          wfile[i].body.error /\ path.route \in {"/api/crops", "/api/geojson"}
              => wfile[i].status = 200 /\ EmptyResult(wfile[i].body)

\* C25: a /download-gpkg request answered with success = false leaves
\* gpkg_file_path as it was; only a request answered with success = true
\* replaces it.
C25_FailedDownloadKeepsPath ==
    [][gpkg_file_path' # gpkg_file_path
          => path'.route = "/download-gpkg" /\ wfile'[1].body.success]_vars

\* the rows of the first table of the dataset whose centroid is in the bounds
\* of the request being answered
RowsInBounds ==
    LET table == gpkg_file_path.db.tables[1]
        geom_at == ColumnAt(table.columns, geom_column_of(table.columns))
    IN  SelectSeq(table.rows, LAMBDA row : InBounds(row[geom_at], path.bounds))

\* C26: /api/crops answers spatial_filtering = true only when its counts are
\* those of the rows inside the requested bounds; when they are the counts of
\* the whole table the flag is false.
C26_SpatialFlagMeansFiltered ==
    Answering("/api/crops") /\ gpkg_file_path.set /\ ~wfile[1].body.error
        => (wfile[1].body.spatial_filtering
              => wfile[1].body.total_features = Len(RowsInBounds))

\* C27: for the table of the downloaded dataset, /api/crops and /api/geojson
\* select the same crop column, whatever the names of its columns.
C27_SameCropColumn ==
    gpkg_file_path.set =>
        \A i \in 1..Len(gpkg_file_path.db.tables) :
            crop_column_of(gpkg_file_path.db.tables[i].columns)
                = geojson_crop_column_of(gpkg_file_path.db.tables[i].columns)

\* some download was answered with success = true
Succeeded == \E i \in 1..Len(temp_dirs) : temp_dirs[i].success

LimitAsked == IF path.limit.given THEN path.limit.n ELSE DefaultLimit

\* C28: before any successful download /api/crops answers total_features 0
\* and no crops and /api/geojson answers no features; at any time
\* /api/geojson answers at most 'limit' features and /api/crops at most
\* CropLimit crops, their counts never increasing along the list.
C28_EmptyBeforeDownloadThenCapped ==
    /\ ~Succeeded /\ Answering("/api/crops")
          => wfile[1].body.total_features = 0 /\ wfile[1].body.top_crops = <<>>
    /\ ~Succeeded /\ Answering("/api/geojson")
          => \A i \in 1..Len(wfile) : wfile[i].body.features = <<>>
    /\ Answering("/api/geojson")
          => \A i \in 1..Len(wfile) : Len(wfile[i].body.features) <= Max(LimitAsked, 0)
    /\ Answering("/api/crops")
          => /\ Len(wfile[1].body.top_crops) <= CropLimit
             /\ \A i \in 1..Len(wfile[1].body.top_crops), j \in 1..Len(wfile[1].body.top_crops) :
                   i < j => wfile[1].body.top_crops[i].count >= wfile[1].body.top_crops[j].count

(***************************************************************************)
(* Properties of cdse_downloads.py.                                        *)
(***************************************************************************)
IsPrefix(p, q) == Len(p) <= Len(q) /\ SubSeq(q, 1, Len(p)) = p

\* load_data fails: the file is missing, unreadable or empty
LoadFails == argv.gone \/ ~argv.file.readable \/ argv.file.rows = <<>>

\* C29: run_analysis calls load_data, calculate_bounds, the display and
\* generate methods and save_config_file in this order; when loading fails it
\* returns False with no bounds computed and no configuration written, and
\* main exits with status 1; it returns True only after every step ran.
C29_StepsInOrder ==
    /\ IsPrefix(calls, Steps)
    /\ LoadFails /\ calls # <<>>
          => /\ analysis_pc \in {"failed", "exited"}
             /\ calls = <<"load_data">>
             /\ ~analyzer.bounds.set
             /\ ~config_file.written
             /\ analysis_pc = "exited" => exit_status = 1
    /\ analysis_pc = "succeeded" \/ exit_status = 0 => calls = Steps

\* an empty layer was read and refused, and main has exited
C29_Witness ==
    /\ analysis_pc = "exited"
    /\ argv.file.readable /\ argv.file.rows = <<>> /\ ~argv.gone
    /\ analyzer.gdf.loaded
    /\ calls = <<"load_data">>
    /\ exit_status = 1

(***************************************************************************)
(* Properties of conection_cdse.py.                                        *)
(***************************************************************************)
Missing(credential) == credential \in {None, ""}

TokenAnswered200 ==
    /\ requests_sent # <<>>
    /\ cdse.token.raises = "none"
    /\ cdse.token.status_code = 200

\* C30: test_cdse_authentication returns True exactly when the token endpoint
\* answered 200; it sends no request when the username or the password is
\* missing; the catalogue is called only after a 200 of the token endpoint,
\* and what the catalogue answers does not change the value returned.
C30_TrueIffToken200 ==
    /\ returned # None => (returned = "True" <=> TokenAnswered200)
    /\ Missing(environ.CDSE_USERNAME) \/ Missing(environ.CDSE_PASSWORD)
          => requests_sent = <<>>
    /\ \A i \in 1..Len(requests_sent) :
          requests_sent[i] = "catalogue" => i = 2 /\ TokenAnswered200

====
